---------------------------- MODULE Spec2Model ----------------------------
(***************************************************************************)
(* gotpl: render_template, the bridge from Rust to the Go template engine. *)
(*                                                                         *)
(* A Rust String / &str is a sequence of Unicode scalar values (naturals), *)
(* a C buffer is a sequence of bytes.  Option<T> is a sequence of length   *)
(* at most one: <<>> is None and <<x>> is Some(x).                         *)
(***************************************************************************)
EXTENDS Naturals, Sequences, FiniteSets

\* Longest template text / data string a caller passes.
MaxLen == 2
\* Longest output / error text the template engine returns.
MaxOut == 1
\* Number of render_template calls made in one behaviour.
MaxCalls == 2

None == <<>>
Some(x) == <<x>>

NUL == 0
REPLACEMENT_CHARACTER == 65533

\* Sequences over S of length at most n.
SeqUpTo(S, n) == UNION {[1..k -> S] : k \in 0..n}

RECURSIVE Flatten(_)
Flatten(ss) == IF ss = <<>> THEN <<>> ELSE Head(ss) \o Flatten(Tail(ss))

\* Index of the first x in s, 0 when there is none.
RECURSIVE IndexFrom(_, _, _)
IndexFrom(s, x, i) ==
    IF i > Len(s) THEN 0
    ELSE IF s[i] = x THEN i
    ELSE IndexFrom(s, x, i + 1)

IndexOf(s, x) == IndexFrom(s, x, 1)

HasPrefix(s, p) == Len(s) >= Len(p) /\ SubSeq(s, 1, Len(p)) = p

(***************************************************************************)
(* The literal texts of the format! calls.                                 *)
(***************************************************************************)
\* "Failed to convert template content to CString: "
MsgConvertTemplate == <<70, 97, 105, 108, 101, 100, 32, 116, 111, 32, 99, 111, 110, 118, 101, 114, 116, 32, 116, 101, 109, 112, 108, 97, 116, 101, 32, 99, 111, 110, 116, 101, 110, 116, 32, 116, 111, 32, 67, 83, 116, 114, 105, 110, 103, 58, 32>>
\* "Failed to serialize data to JSON: "
MsgSerialize == <<70, 97, 105, 108, 101, 100, 32, 116, 111, 32, 115, 101, 114, 105, 97, 108, 105, 122, 101, 32, 100, 97, 116, 97, 32, 116, 111, 32, 74, 83, 79, 78, 58, 32>>
\* "Failed to convert JSON data string to CString: "
MsgConvertJson == <<70, 97, 105, 108, 101, 100, 32, 116, 111, 32, 99, 111, 110, 118, 101, 114, 116, 32, 74, 83, 79, 78, 32, 100, 97, 116, 97, 32, 115, 116, 114, 105, 110, 103, 32, 116, 111, 32, 67, 83, 116, 114, 105, 110, 103, 58, 32>>
\* "nul byte found in provided data at position: ", the Display of NulError
MsgNulError == <<110, 117, 108, 32, 98, 121, 116, 101, 32, 102, 111, 117, 110, 100, 32, 105, 110, 32, 112, 114, 111, 118, 105, 100, 101, 100, 32, 100, 97, 116, 97, 32, 97, 116, 32, 112, 111, 115, 105, 116, 105, 111, 110, 58, 32>>

\* Display of a usize: its decimal digits.
RECURSIVE DisplayUsize(_)
DisplayUsize(n) ==
    IF n < 10 THEN <<48 + n>>
    ELSE DisplayUsize(n \div 10) \o <<48 + (n % 10)>>

(***************************************************************************)
(* UTF-8: how a &str lies in memory, and CStr::to_string_lossy.            *)
(***************************************************************************)
Utf8EncodeChar(c) ==
    IF c < 128 THEN <<c>>
    ELSE IF c < 2048 THEN <<192 + (c \div 64), 128 + (c % 64)>>
    ELSE IF c < 65536 THEN
        <<224 + (c \div 4096), 128 + ((c \div 64) % 64), 128 + (c % 64)>>
    ELSE <<240 + (c \div 262144), 128 + ((c \div 4096) % 64),
           128 + ((c \div 64) % 64), 128 + (c % 64)>>

Utf8Encode(s) == Flatten([i \in 1..Len(s) |-> Utf8EncodeChar(s[i])])

IsCont(b) == b >= 128 /\ b <= 191

\* b[i], or 256 (no byte) past the end.
ByteAt(b, i) == IF i <= Len(b) THEN b[i] ELSE 256

\* The range the second byte of a sequence led by b1 must lie in.
SecondLo(b1) == IF b1 = 224 THEN 160 ELSE IF b1 = 240 THEN 144 ELSE 128
SecondHi(b1) == IF b1 = 237 THEN 159 ELSE IF b1 = 244 THEN 143 ELSE 191

\* The next chunk of b at i: the number of bytes it takes and the char it
\* decodes to; an invalid sequence is the longest prefix of a valid one and
\* decodes to U+FFFD.
Utf8Chunk(b, i) ==
    LET b1 == b[i]
        b2 == ByteAt(b, i + 1)
        b3 == ByteAt(b, i + 2)
        b4 == ByteAt(b, i + 3)
        ok2 == b2 >= SecondLo(b1) /\ b2 <= SecondHi(b1)
        bad(n) == [len |-> n, char |-> REPLACEMENT_CHARACTER]
    IN  IF b1 < 128 THEN [len |-> 1, char |-> b1]
        ELSE IF b1 >= 194 /\ b1 <= 223 THEN
            IF IsCont(b2)
            THEN [len |-> 2, char |-> (b1 - 192) * 64 + (b2 - 128)]
            ELSE bad(1)
        ELSE IF b1 >= 224 /\ b1 <= 239 THEN
            IF ~ok2 THEN bad(1)
            ELSE IF ~IsCont(b3) THEN bad(2)
            ELSE [len |-> 3,
                  char |-> (b1 - 224) * 4096 + (b2 - 128) * 64 + (b3 - 128)]
        ELSE IF b1 >= 240 /\ b1 <= 244 THEN
            IF ~ok2 THEN bad(1)
            ELSE IF ~IsCont(b3) THEN bad(2)
            ELSE IF ~IsCont(b4) THEN bad(3)
            ELSE [len |-> 4,
                  char |-> (b1 - 240) * 262144 + (b2 - 128) * 4096
                           + (b3 - 128) * 64 + (b4 - 128)]
        ELSE bad(1)

RECURSIVE LossyFrom(_, _)
LossyFrom(b, i) ==
    IF i > Len(b) THEN <<>>
    ELSE LET ch == Utf8Chunk(b, i)
         IN  <<ch.char>> \o LossyFrom(b, i + ch.len)

\* String::from_utf8_lossy(bytes).into_owned()
ToStringLossy(b) == LossyFrom(b, 1)

\* CStr::from_ptr(p).to_bytes(): the bytes at p up to the first NUL.
CStrBytes(mem) ==
    LET z == IndexOf(mem, NUL)
    IN  IF z = 0 THEN mem ELSE SubSeq(mem, 1, z - 1)

\* CStr::from_ptr(p).to_string_lossy().into_owned()
CStrToOwned(mem) == ToStringLossy(CStrBytes(mem))

(***************************************************************************)
(* CString::new: Ok(bytes + terminator), or Err(NulError(position)).       *)
(***************************************************************************)
\* Seeded fault: an interior NUL is accepted and the text
\* silently cut there.
CStringNewTruncating(s) ==
    [ok |-> TRUE, bytes |-> CStrBytes(Utf8Encode(s)) \o <<NUL>>, pos |-> 0]

CStringNew(s) ==
    LET b == Utf8Encode(s)
        z == IndexOf(b, NUL)
    IN  IF z = 0
        THEN [ok |-> TRUE, bytes |-> b \o <<NUL>>, pos |-> 0]
        ELSE [ok |-> FALSE, bytes |-> <<>>, pos |-> z - 1]

DisplayNulError(pos) == MsgNulError \o DisplayUsize(pos)

(***************************************************************************)
(* serde_json::to_string on the data.  A data value is a string            *)
(* (kind "String") or a value whose Serialize impl returns                 *)
(* Err(custom(text)) (kind "Custom").                                      *)
(***************************************************************************)
HexDigit(n) == IF n < 10 THEN 48 + n ELSE 87 + n

\* serde_json's escape of one char of a string.
JsonEscapeChar(c) ==
    IF c = 34 THEN <<92, 34>>
    ELSE IF c = 92 THEN <<92, 92>>
    ELSE IF c = 8 THEN <<92, 98>>
    ELSE IF c = 12 THEN <<92, 102>>
    ELSE IF c = 10 THEN <<92, 110>>
    ELSE IF c = 13 THEN <<92, 114>>
    ELSE IF c = 9 THEN <<92, 116>>
    ELSE IF c < 32 THEN <<92, 117, 48, 48, HexDigit(c \div 16), HexDigit(c % 16)>>
    ELSE <<c>>

JsonString(s) ==
    <<34>> \o Flatten([i \in 1..Len(s) |-> JsonEscapeChar(s[i])]) \o <<34>>

\* Seeded fault: a failing Serialize impl is swallowed and
\* "null" is sent instead.
SerdeJsonToStringNull(d) ==
    IF d.kind = "String"
    THEN [ok |-> TRUE, text |-> JsonString(d.text)]
    ELSE [ok |-> TRUE, text |-> <<110, 117, 108, 108>>]

SerdeJsonToString(d) ==
    IF d.kind = "String"
    THEN [ok |-> TRUE, text |-> JsonString(d.text)]
    ELSE [ok |-> FALSE, text |-> d.text]


(***************************************************************************)
(* The values render_template builds.                                      *)
(***************************************************************************)
\* TemplateError(String): one struct wrapping one message.
TemplateError(msg) == [variant |-> "TemplateError", text |-> msg]

\* Result<String, TemplateError>
Ok(s) == [tag |-> "Ok", variant |-> "String", text |-> s]
Err(e) == [tag |-> "Err", variant |-> e.variant, text |-> e.text]

\* Seeded fault: the message loses its prefix.
ConvertTemplateErrorBare(pos) == TemplateError(DisplayNulError(pos))

ConvertTemplateError(pos) ==
    TemplateError(MsgConvertTemplate \o DisplayNulError(pos))

SerializeError(cause) == TemplateError(MsgSerialize \o cause)

ConvertJsonError(pos) ==
    TemplateError(MsgConvertJson \o DisplayNulError(pos))

\* Seeded fault: a non-empty output wins over the error.
TranslatePreferOutput(out, err) ==
    IF out # <<>> THEN Ok(out)
    ELSE IF err # <<>> THEN Err(TemplateError(err))
    ELSE Ok(out)

\* The final branch: the error text decides, the output is the value.
Translate(out, err) ==
    IF err # <<>> THEN Err(TemplateError(err)) ELSE Ok(out)

\* CString::as_ptr() yields a *const c_char into the named local.
AsPtr(local) == [buffer |-> local, mutable |-> FALSE]
\* `p as *mut i8`
CastMut(p) == [p EXCEPT !.mutable = TRUE]

(***************************************************************************)
(* State.                                                                  *)
(***************************************************************************)
\* Threads that call render_template in the concurrent specification.
NumThreads == 2
Threads == 1..NumThreads

VARIABLES
    pc,                  \* per thread: the statement it is at, or "idle"
    args,                \* per thread: Option of the call's arguments
    c_template_content,  \* per thread: Option<CString> (its bytes)
    json_data_string,    \* per thread: Option<String>
    c_json_data,         \* per thread: Option<CString>
    result,              \* per thread: Option of the RenderTemplate result
    output,              \* per thread: Option<String>
    error,               \* per thread: Option<String>
    ret,                 \* per thread: Option of the value the call returned
    inflight,            \* per thread: Option of the arguments RenderTemplate
                         \*             is running with
    heap,                \* the engine's allocations, by handle
    callId,              \* per thread: number of its current/last call
    calls,               \* render_template calls started
    finished,            \* numbers of the calls that returned
    renderCalls,         \* RenderTemplate invocations
    freeCalls,           \* FreeResultString invocations
    returned,            \* per thread: Option of the bytes RenderTemplate
                         \*             returned to its call (history)
    trace,               \* per thread: the steps its call executed (history)
    faults               \* undefined behaviour that happened (history)

vars == <<pc, args, c_template_content, json_data_string, c_json_data, result,
          output, error, ret, inflight, heap, callId, calls, finished,
          renderCalls, freeCalls, returned, trace, faults>>

locals == <<c_template_content, json_data_string, c_json_data, result,
            output, error>>

foreign == <<inflight, heap, renderCalls, freeCalls, returned>>

Init ==
    /\ pc = [t \in Threads |-> "idle"]
    /\ args = [t \in Threads |-> None]
    /\ c_template_content = [t \in Threads |-> None]
    /\ json_data_string = [t \in Threads |-> None]
    /\ c_json_data = [t \in Threads |-> None]
    /\ result = [t \in Threads |-> None]
    /\ output = [t \in Threads |-> None]
    /\ error = [t \in Threads |-> None]
    /\ ret = [t \in Threads |-> None]
    /\ inflight = [t \in Threads |-> None]
    /\ heap = <<>>
    /\ callId = [t \in Threads |-> 0]
    /\ calls = 0
    /\ finished = {}
    /\ renderCalls = 0
    /\ freeCalls = 0
    /\ returned = [t \in Threads |-> None]
    /\ trace = [t \in Threads |-> <<>>]
    /\ faults = {}

(***************************************************************************)
(* The statements of render_template in program order, by first line.      *)
(***************************************************************************)
\* Seeded fault: the buffers are freed before they are read.
ProgramOrderFreeFirst ==
    <<"l45", "l53", "l57", "l65", "l79", "l80", "l74", "l75", "l84">>

\* Seeded fault: the data is serialized before the template
\* is marshaled.
ProgramOrderSerializeFirst ==
    <<"l53", "l45", "l57", "l65", "l74", "l75", "l79", "l80", "l84">>

ProgramOrder ==
    <<"l45", "l53", "l57", "l65", "l74", "l75", "l79", "l80", "l84">>

\* The statement after l, "idle" (the caller resumes) after the last.
Succ(l) ==
    LET i == IndexOf(ProgramOrder, l)
    IN  IF i = 0 \/ i = Len(ProgramOrder) THEN "idle" ELSE ProgramOrder[i + 1]

\* Leaving the function: every local is dropped, the caller gets r.
Leave(t, r) ==
    /\ pc' = [pc EXCEPT ![t] = "idle"]
    /\ ret' = [ret EXCEPT ![t] = Some(r)]
    /\ finished' = finished \cup {callId[t]}
    /\ c_template_content' = [c_template_content EXCEPT ![t] = None]
    /\ json_data_string' = [json_data_string EXCEPT ![t] = None]
    /\ c_json_data' = [c_json_data EXCEPT ![t] = None]
    /\ result' = [result EXCEPT ![t] = None]
    /\ output' = [output EXCEPT ![t] = None]
    /\ error' = [error EXCEPT ![t] = None]

Step(t, name) == trace' = [trace EXCEPT ![t] = Append(@, name)]

\* A caller invokes render_template(template_content, &data, escape_html).
Call(t, templates, datas, flags) ==
    /\ pc[t] = "idle"
    /\ calls < MaxCalls
    /\ \E tc \in templates, d \in datas, e \in flags :
          args' = [args EXCEPT ![t] =
                     Some([template_content |-> tc, data |-> d,
                           escape_html |-> e])]
    /\ pc' = [pc EXCEPT ![t] = ProgramOrder[1]]
    /\ calls' = calls + 1
    /\ callId' = [callId EXCEPT ![t] = calls + 1]
    /\ ret' = [ret EXCEPT ![t] = None]
    /\ returned' = [returned EXCEPT ![t] = None]
    /\ trace' = [trace EXCEPT ![t] = <<>>]
    /\ UNCHANGED <<locals, inflight, heap, finished, renderCalls, freeCalls,
                   faults>>

\* let c_template_content = CString::new(template_content).map_err(..)?;
MarshalTemplate(t) ==
    /\ pc[t] = "l45"
    /\ Step(t, "marshal_template")
    /\ LET c == CStringNew(args[t][1].template_content)
       IN  IF c.ok
           THEN /\ c_template_content' =
                      [c_template_content EXCEPT ![t] = Some(c.bytes)]
                /\ pc' = [pc EXCEPT ![t] = Succ("l45")]
                /\ UNCHANGED <<json_data_string, c_json_data, result, output,
                               error, ret, finished>>
           ELSE Leave(t, Err(ConvertTemplateError(c.pos)))
    /\ UNCHANGED <<args, foreign, callId, calls, faults>>

\* let json_data_string = serde_json::to_string(data).map_err(..)?;
Serialize(t) ==
    /\ pc[t] = "l53"
    /\ Step(t, "serialize")
    /\ LET j == SerdeJsonToString(args[t][1].data)
       IN  IF j.ok
           THEN /\ json_data_string' =
                      [json_data_string EXCEPT ![t] = Some(j.text)]
                /\ pc' = [pc EXCEPT ![t] = Succ("l53")]
                /\ UNCHANGED <<c_template_content, c_json_data, result,
                               output, error, ret, finished>>
           ELSE Leave(t, Err(SerializeError(j.text)))
    /\ UNCHANGED <<args, foreign, callId, calls, faults>>

\* let c_json_data = CString::new(json_data_string).map_err(..)?;
MarshalJson(t) ==
    /\ pc[t] = "l57"
    /\ json_data_string[t] # None
    /\ Step(t, "marshal_json")
    /\ LET c == CStringNew(json_data_string[t][1])
       IN  IF c.ok
           THEN /\ c_json_data' = [c_json_data EXCEPT ![t] = Some(c.bytes)]
                \* json_data_string is moved into the CString
                /\ json_data_string' = [json_data_string EXCEPT ![t] = None]
                /\ pc' = [pc EXCEPT ![t] = Succ("l57")]
                /\ UNCHANGED <<c_template_content, result, output, error,
                               ret, finished>>
           ELSE Leave(t, Err(ConvertJsonError(c.pos)))
    /\ UNCHANGED <<args, foreign, callId, calls, faults>>

(***************************************************************************)
(* The boundary.                                                           *)
(***************************************************************************)
\* The arguments of the RenderTemplate call.
TemplateArg == CastMut(AsPtr("c_template_content"))
DataArg == CastMut(AsPtr("c_json_data"))
\* Seeded fault: the flag is the documented default, not the
\* caller's argument.
FlagArgsDefault(t) == <<TRUE>>

FlagArgs(t) == <<args[t][1].escape_html>>

\* The local of thread t a pointer points into.
Pointee(t, p) ==
    IF p.buffer = "c_template_content" THEN c_template_content[t]
    ELSE c_json_data[t]

\* Seeded fault: the JSON CString is a temporary, dropped
\* before the call that is handed its pointer.
RenderTemplateCallDangling(t) ==
    /\ pc[t] = "l65"
    /\ Step(t, "RenderTemplate")
    /\ pc' = [pc EXCEPT ![t] = "foreign"]
    /\ inflight' = [inflight EXCEPT ![t] =
                      Some([template |-> TemplateArg, data |-> DataArg,
                            flags |-> FlagArgs(t)])]
    /\ c_json_data' = [c_json_data EXCEPT ![t] = None]
    /\ renderCalls' = renderCalls + 1
    /\ UNCHANGED <<args, c_template_content, json_data_string, result,
                   output, error, ret, heap, callId, calls, finished,
                   freeCalls, returned, faults>>

\* let result = unsafe { RenderTemplate(.., .., escape_html) };  the call
RenderTemplateCall(t) ==
    /\ pc[t] = "l65"
    /\ Step(t, "RenderTemplate")
    /\ pc' = [pc EXCEPT ![t] = "foreign"]
    /\ inflight' = [inflight EXCEPT ![t] =
                      Some([template |-> TemplateArg, data |-> DataArg,
                            flags |-> FlagArgs(t)])]
    /\ renderCalls' = renderCalls + 1
    /\ UNCHANGED <<args, locals, ret, heap, callId, calls, finished,
                   freeCalls, returned, faults>>

\* A buffer the engine allocates for the text s (C.CString).
Allocation(t, s) ==
    [state |-> "live", bytes |-> Utf8Encode(s) \o <<NUL>>, owner |-> t,
     call |-> callId[t], frees |-> 0, readBy |-> {}, freedBy |-> {}]

\* The engine returns: it has read both input buffers and hands over two
\* freshly allocated buffers, the output text and the error text.
RenderTemplateReturn(t, outs, errs) ==
    /\ pc[t] = "foreign"
    /\ \E o \in outs, e \in errs :
          /\ heap' = heap \o <<Allocation(t, o), Allocation(t, e)>>
          /\ returned' = [returned EXCEPT ![t] =
                            Some([output |-> Utf8Encode(o),
                                  error |-> Utf8Encode(e)])]
    /\ result' = [result EXCEPT ![t] =
                    Some([output |-> Len(heap) + 1, error |-> Len(heap) + 2])]
    /\ faults' = faults \cup
          {"dangling input" : x \in
              {p \in {inflight[t][1].template, inflight[t][1].data} :
                  Pointee(t, p) = None}}
    /\ inflight' = [inflight EXCEPT ![t] = None]
    /\ pc' = [pc EXCEPT ![t] = Succ("l65")]
    /\ UNCHANGED <<args, c_template_content, json_data_string, c_json_data,
                   output, error, ret, callId, calls, finished, renderCalls,
                   freeCalls, trace>>

\* What a read through a dangling or null pointer may yield.
Garbage == {<<>>, <<63>>}

\* Seeded fault: the result record is one slot shared by all
\* threads.
ResultShared(t) == result[1]

\* The result record thread t reads and frees: its own local.
ResultOf(t) == result[t]

Live(h) == h \in 1..Len(heap) /\ heap[h].state = "live"

\* CStr::from_ptr(h).to_string_lossy().into_owned(): the values it may
\* yield, and its trace in the heap.
ReadValues(h) == IF Live(h) THEN {CStrToOwned(heap[h].bytes)} ELSE Garbage

ReadMark(t, h) ==
    /\ heap' = IF h \in 1..Len(heap)
               THEN [heap EXCEPT ![h].readBy = @ \cup {t}]
               ELSE heap
    /\ faults' = IF Live(h) THEN faults
                 ELSE faults \cup {IF h \in 1..Len(heap)
                                   THEN "read after free" ELSE "null read"}

\* FreeResultString(h)
FreeResultString(t, h) ==
    /\ heap' = IF h \in 1..Len(heap)
               THEN [heap EXCEPT ![h].state = "freed", ![h].bytes = <<>>,
                                 ![h].frees = @ + 1,
                                 ![h].freedBy = @ \cup {t}]
               ELSE heap
    /\ faults' = IF Live(h) THEN faults
                 ELSE faults \cup {IF h \in 1..Len(heap)
                                   THEN "double free" ELSE "null free"}
    /\ freeCalls' = freeCalls + 1

HandleOf(r, field) ==
    IF r = None THEN 0 ELSE IF field = "output" THEN r[1].output ELSE r[1].error

\* Seeded fault: the output handle is freed twice, the error handle never.
SecondFreedAgain(t) == HandleOf(ResultOf(t), "output")

\* The handles the two FreeResultString calls are given.
FirstFreed(t) == HandleOf(ResultOf(t), "output")
SecondFreed(t) == HandleOf(ResultOf(t), "error")

\* let output = unsafe { CStr::from_ptr(result.output)... };
ReadOutput(t) ==
    /\ pc[t] = "l74"
    /\ Step(t, "read_output")
    /\ LET h == HandleOf(ResultOf(t), "output")
       IN  /\ \E v \in ReadValues(h) : output' = [output EXCEPT ![t] = Some(v)]
           /\ ReadMark(t, h)
    /\ pc' = [pc EXCEPT ![t] = Succ("l74")]
    /\ UNCHANGED <<args, c_template_content, json_data_string, c_json_data,
                   result, error, ret, inflight, callId, calls, finished,
                   renderCalls, freeCalls, returned>>

\* let error = unsafe { CStr::from_ptr(result.error)... };
ReadError(t) ==
    /\ pc[t] = "l75"
    /\ Step(t, "read_error")
    /\ LET h == HandleOf(ResultOf(t), "error")
       IN  /\ \E v \in ReadValues(h) : error' = [error EXCEPT ![t] = Some(v)]
           /\ ReadMark(t, h)
    /\ pc' = [pc EXCEPT ![t] = Succ("l75")]
    /\ UNCHANGED <<args, c_template_content, json_data_string, c_json_data,
                   result, output, ret, inflight, callId, calls, finished,
                   renderCalls, freeCalls, returned>>

\* FreeResultString(result.output);
FreeOutput(t) ==
    /\ pc[t] = "l79"
    /\ Step(t, "free_output")
    /\ FreeResultString(t, FirstFreed(t))
    /\ pc' = [pc EXCEPT ![t] = Succ("l79")]
    /\ UNCHANGED <<args, locals, ret, inflight, callId, calls, finished,
                   renderCalls, returned>>

\* FreeResultString(result.error);
FreeError(t) ==
    /\ pc[t] = "l80"
    /\ Step(t, "free_error")
    /\ FreeResultString(t, SecondFreed(t))
    /\ pc' = [pc EXCEPT ![t] = Succ("l80")]
    /\ UNCHANGED <<args, locals, ret, inflight, callId, calls, finished,
                   renderCalls, returned>>

\* if !error.is_empty() { Err(TemplateError(error)) } else { Ok(output) }
Return(t) ==
    /\ pc[t] = "l84"
    /\ output[t] # None
    /\ error[t] # None
    /\ Step(t, "return")
    /\ Leave(t, Translate(output[t][1], error[t][1]))
    /\ UNCHANGED <<args, foreign, callId, calls, faults>>

(***************************************************************************)
(* Specifications.                                                         *)
(***************************************************************************)
\* What one caller passes, and what the engine answers.
Templates == SeqUpTo({NUL, 97}, MaxLen)
DataValues ==
    {[kind |-> "String", text |-> s] : s \in SeqUpTo({NUL, 97}, MaxLen)}
    \cup {[kind |-> "Custom", text |-> <<120>>]}
EngineTexts == SeqUpTo({97, 233}, MaxOut)

\* The smaller inputs of concurrent callers.
ConcTemplates == {<<>>, <<NUL>>}
ConcDataValues == {[kind |-> "String", text |-> <<>>]}
ConcFlags == {TRUE}
ConcOutputs == {<<97>>}
ConcErrors == {<<>>, <<97>>}

Body(t) ==
    \/ MarshalTemplate(t)
    \/ Serialize(t)
    \/ MarshalJson(t)
    \/ RenderTemplateCall(t)
    \/ ReadOutput(t)
    \/ ReadError(t)
    \/ FreeOutput(t)
    \/ FreeError(t)
    \/ Return(t)

\* One thread calling render_template again and again.
Next ==
    \/ Call(1, Templates, DataValues, BOOLEAN)
    \/ RenderTemplateReturn(1, EngineTexts, EngineTexts)
    \/ Body(1)

Spec == Init /\ [][Next]_vars

\* Several threads calling render_template concurrently.
NextConc ==
    \E t \in Threads :
        \/ Call(t, ConcTemplates, ConcDataValues, ConcFlags)
        \/ RenderTemplateReturn(t, ConcOutputs, ConcErrors)
        \/ Body(t)

SpecConc == Init /\ [][NextConc]_vars

(***************************************************************************)
(* Properties.                                                             *)
(***************************************************************************)
Arg(t) == args[t][1]
Ret(t) == ret[t][1]
Handles == 1..Len(heap)

\* Thread t's call has returned to its caller.
Returned(t) == pc[t] = "idle" /\ ret[t] # None
\* Thread t's call has executed the named step.
Ran(t, step) == IndexOf(trace[t], step) # 0
Count(t, step) == Cardinality({i \in 1..Len(trace[t]) : trace[t][i] = step})
HasNul(s) == IndexOf(s, NUL) # 0
Failed(t) == Returned(t) /\ Ret(t).tag = "Err"

\* The steps of a call that fails nowhere, in the documented order.
StepOrder ==
    <<"marshal_template", "serialize", "marshal_json", "RenderTemplate",
      "read_output", "read_error", "free_output", "free_error", "return">>

\* Both marshaled input buffers of thread t exist.
InputsAlive(t) == c_template_content[t] # None /\ c_json_data[t] # None

\* C1: a call that reaches RenderTemplate frees each of the two returned
\* handles exactly once before it returns, on every exit path; once all
\* calls have returned, 2 * N buffers were allocated and 2 * N freed, none
\* twice.
C1_EachHandleFreedOnce ==
    /\ \A h \in Handles : heap[h].frees <= 1
    /\ \A h \in Handles :
          heap[h].call \in finished =>
              heap[h].frees = 1 /\ heap[h].state = "freed"
    /\ \A t \in Threads :
          Returned(t) /\ Ran(t, "RenderTemplate") =>
              Count(t, "free_output") = 1 /\ Count(t, "free_error") = 1
    /\ (\A t \in Threads : pc[t] = "idle") =>
          /\ Len(heap) = 2 * renderCalls
          /\ freeCalls = 2 * renderCalls
          /\ \A h \in Handles : heap[h].state = "freed"

\* Two calls went through the boundary, the last with an empty error buffer,
\* and four buffers were freed.
C1_Witness ==
    /\ Returned(1)
    /\ renderCalls = 2
    /\ freeCalls = 4
    /\ returned[1] # None
    /\ returned[1][1].error = <<>>

\* C2: each foreign buffer is read before FreeResultString is called on it,
\* never after, and the Strings the outcome is built from are owned copies
\* that exist before the first release.
C2_ReadBeforeFree ==
    /\ "read after free" \notin faults
    /\ \A h \in Handles :
          heap[h].state = "freed" => heap[h].readBy = {heap[h].owner}
    /\ \A t \in Threads :
          /\ Ran(t, "free_output") =>
                /\ Ran(t, "read_output")
                /\ IndexOf(trace[t], "read_output")
                      < IndexOf(trace[t], "free_output")
          /\ Ran(t, "free_error") =>
                /\ Ran(t, "read_error")
                /\ IndexOf(trace[t], "read_error")
                      < IndexOf(trace[t], "free_error")
          /\ (Ran(t, "free_output") \/ Ran(t, "free_error")) /\ pc[t] # "idle"
                => output[t] # None /\ error[t] # None
          /\ Returned(t) /\ returned[t] # None =>
                Ret(t).text \in {ToStringLossy(returned[t][1].output),
                                 ToStringLossy(returned[t][1].error)}

\* Both buffers are released and the outcome is still to be built.
C2_Witness ==
    /\ pc[1] = "l84"
    /\ result[1] # None
    /\ heap[result[1][1].output].state = "freed"
    /\ heap[result[1][1].error].state = "freed"
    /\ output[1] # None
    /\ output[1][1] # <<>>

\* C3: a non-empty error buffer gives a failure carrying exactly the error
\* content, whatever the output buffer holds; an empty error buffer gives a
\* success carrying exactly the output content.
C3_ErrorDecides ==
    \A t \in Threads :
        Returned(t) /\ returned[t] # None =>
            IF returned[t][1].error # <<>>
            THEN /\ Ret(t).tag = "Err"
                 /\ Utf8Encode(Ret(t).text) = returned[t][1].error
            ELSE /\ Ret(t).tag = "Ok"
                 /\ Utf8Encode(Ret(t).text) = returned[t][1].output

\* The engine returned a non-empty output together with a non-empty error.
C3_Witness ==
    /\ Returned(1)
    /\ returned[1] # None
    /\ returned[1][1].error # <<>>
    /\ returned[1][1].output # <<>>
    /\ Ret(1).tag = "Err"

\* C4 as stated: a NUL in the template text or in a string value of the
\* data makes the call fail without RenderTemplate being called.
C4_NulAnywhereRejected ==
    \A t \in Threads :
        /\ Returned(t)
        /\ \/ HasNul(Arg(t).template_content)
           \/ Arg(t).data.kind = "String" /\ HasNul(Arg(t).data.text)
        => Ret(t).tag = "Err" /\ ~Ran(t, "RenderTemplate")

\* C4 amended: a NUL in the template text makes the call fail at the first
\* step with the template-conversion error, and nothing of the boundary is
\* touched; a NUL in a string of the data is escaped by the serializer, the
\* JSON text holds no NUL byte and its conversion does not fail.
C4_NulInTemplateRejected ==
    \A t \in Threads :
        /\ trace[t] # <<>> /\ HasNul(Arg(t).template_content) =>
              /\ Failed(t)
              /\ HasPrefix(Ret(t).text, MsgConvertTemplate)
              /\ trace[t] = <<"marshal_template">>
              /\ returned[t] = None
              /\ \A h \in Handles : heap[h].call # callId[t]
        /\ Ran(t, "marshal_json") /\ Arg(t).data.kind = "String" =>
              /\ ~(Failed(t) /\ HasPrefix(Ret(t).text, MsgConvertJson))
              /\ Returned(t) => Ran(t, "RenderTemplate")

\* A call with a NUL in its template has returned, after an earlier call
\* went through the boundary.
C4_Witness ==
    /\ Failed(1)
    /\ HasNul(Arg(1).template_content)
    /\ renderCalls = 1

\* C5: when serialization fails, the call returns the serialization error
\* with the serializer's cause, and neither RenderTemplate nor
\* FreeResultString is called in it; no foreign buffer belongs to it.
C5_SerializationFailureBeforeBoundary ==
    \A t \in Threads :
        Ran(t, "serialize") /\ Arg(t).data.kind = "Custom" =>
            /\ Failed(t)
            /\ Ret(t).text = MsgSerialize \o Arg(t).data.text
            /\ ~Ran(t, "RenderTemplate")
            /\ ~Ran(t, "free_output")
            /\ ~Ran(t, "free_error")
            /\ returned[t] = None
            /\ \A h \in Handles : heap[h].call # callId[t]

\* A call whose data fails to serialize has returned.
C5_Witness ==
    /\ Returned(1)
    /\ Arg(1).data.kind = "Custom"
    /\ Ran(1, "serialize")
    /\ renderCalls = 0

\* The category of a failure: the step the call failed at.
FailureCategory(t) ==
    LET last == trace[t][Len(trace[t])]
    IN  IF last \in {"marshal_template", "marshal_json"} THEN "InvalidInput"
        ELSE IF last = "serialize" THEN "SerializationFailure"
        ELSE "ExecutionFailure"

\* C6 as stated: the variant of the error value is the category of the
\* failure.
C6_VariantIsCategory ==
    \A t \in Threads : Failed(t) => Ret(t).variant = FailureCategory(t)

\* C6 amended: every failure is a TemplateError, one struct around one
\* message; the category shows in the message alone: the literal prefix of
\* the failed conversion or serialization, or the engine's own text.
C6_CategoryInMessageOnly ==
    \A t \in Threads :
        Failed(t) =>
            /\ Ret(t).variant = "TemplateError"
            /\ FailureCategory(t) = "InvalidInput" =>
                  \/ HasPrefix(Ret(t).text, MsgConvertTemplate)
                  \/ HasPrefix(Ret(t).text, MsgConvertJson)
            /\ FailureCategory(t) = "SerializationFailure" =>
                  HasPrefix(Ret(t).text, MsgSerialize)
            /\ FailureCategory(t) = "ExecutionFailure" =>
                  /\ returned[t] # None
                  /\ Utf8Encode(Ret(t).text) = returned[t][1].error

\* An engine failure has been returned, by the second call that went
\* through the boundary.
C6_Witness ==
    /\ Failed(1)
    /\ FailureCategory(1) = "ExecutionFailure"
    /\ renderCalls = 2

\* C7 as stated: RenderTemplate is called with two flags, escape_html and
\* missing_key_zero.
C7_TwoFlags ==
    \A t \in Threads :
        inflight[t] # None =>
            /\ Len(inflight[t][1].flags) = 2
            /\ inflight[t][1].flags[1] = Arg(t).escape_html

\* C7 amended: RenderTemplate is called with one flag, escape_html, equal
\* to the caller's argument at every moment of the call.
C7_OneFlagEscapeHtml ==
    \A t \in Threads :
        inflight[t] # None => inflight[t][1].flags = <<Arg(t).escape_html>>

\* RenderTemplate is running for a caller that asked for no escaping.
C7_Witness == inflight[1] # None /\ ~Arg(1).escape_html

\* C8: with calls running concurrently, each buffer is read and freed by
\* the call it was returned to only, freed once, and freed by the time that
\* call returns; each outcome comes from the call's own result record.
C8_CallsIsolated ==
    /\ faults = {}
    /\ \A h \in Handles :
          /\ heap[h].frees <= 1
          /\ heap[h].readBy \subseteq {heap[h].owner}
          /\ heap[h].freedBy \subseteq {heap[h].owner}
          /\ heap[h].call \in finished => heap[h].frees = 1
    /\ \A t \in Threads :
          /\ result[t] # None =>
                /\ heap[result[t][1].output].call = callId[t]
                /\ heap[result[t][1].error].call = callId[t]
          /\ Returned(t) /\ returned[t] # None =>
                /\ Ret(t).tag = "Err" <=> returned[t][1].error # <<>>
                /\ Utf8Encode(Ret(t).text) \in
                      {returned[t][1].error, returned[t][1].output}
                /\ Ret(t).tag = "Err" =>
                      Utf8Encode(Ret(t).text) = returned[t][1].error

\* Two calls hold result records at once, one has freed a buffer while the
\* other's are live, and their error buffers differ.
C8_Witness ==
    \E t, u \in Threads :
        /\ t # u
        /\ result[t] # None
        /\ result[u] # None
        /\ heap[result[t][1].output].state = "freed"
        /\ heap[result[u][1].output].state = "live"
        /\ returned[t][1].error # returned[u][1].error

\* C9 as stated: while RenderTemplate runs, both input buffers are
\* allocated and were passed as read-only pointers.
C9_PassedReadOnly ==
    \A t \in Threads :
        inflight[t] # None =>
            /\ InputsAlive(t)
            /\ ~inflight[t][1].template.mutable
            /\ ~inflight[t][1].data.mutable

\* C9 amended: both input buffers exist when RenderTemplate is called, hold
\* the marshaled template and JSON text unchanged while it runs, and are
\* dropped only when render_template returns; they are passed as pointers
\* cast to *mut.
C9_InputsOutliveCall ==
    /\ [](\A t \in Threads :
            /\ inflight[t] # None =>
                  /\ InputsAlive(t)
                  /\ inflight[t][1].template.mutable
                  /\ inflight[t][1].data.mutable
                  /\ CStrBytes(c_template_content[t][1])
                        = Utf8Encode(Arg(t).template_content)
                  /\ CStrBytes(c_json_data[t][1])
                        = Utf8Encode(JsonString(Arg(t).data.text))
            /\ Ran(t, "RenderTemplate") /\ pc[t] # "idle" => InputsAlive(t)
            /\ "dangling input" \notin faults)
    /\ [][\A t \in Threads :
            pc[t] = "foreign" =>
                /\ c_template_content'[t] = c_template_content[t]
                /\ c_json_data'[t] = c_json_data[t]]_vars

\* RenderTemplate is running on a non-empty template and non-empty data.
C9_Witness ==
    /\ inflight[1] # None
    /\ InputsAlive(1)
    /\ Len(c_template_content[1][1]) > 1
    /\ Arg(1).data.text # <<>>

IsPrefix(p, s) == Len(p) <= Len(s) /\ SubSeq(s, 1, Len(p)) = p

\* C10: the steps run in the order marshal template, serialize, marshal
\* JSON, RenderTemplate; the call returns at the first failing step; with a
\* NUL in the template and data that cannot be serialized, the error is the
\* template-conversion error and the data is never serialized.
C10_FirstFailureReturns ==
    \A t \in Threads :
        /\ IsPrefix(trace[t], StepOrder)
        /\ trace[t] # <<>> /\ HasNul(Arg(t).template_content) =>
              /\ trace[t] = <<"marshal_template">>
              /\ Failed(t)
              /\ HasPrefix(Ret(t).text, MsgConvertTemplate)
        /\ Ran(t, "serialize") /\ Arg(t).data.kind = "Custom" =>
              /\ trace[t] = <<"marshal_template", "serialize">>
              /\ Failed(t)
              /\ HasPrefix(Ret(t).text, MsgSerialize)
        /\ Failed(t) /\ ~Ran(t, "RenderTemplate") =>
              \/ HasNul(Arg(t).template_content)
              \/ Arg(t).data.kind = "Custom"

\* A call whose template holds a NUL and whose data cannot be serialized
\* has returned.
C10_Witness ==
    /\ Failed(1)
    /\ HasNul(Arg(1).template_content)
    /\ Arg(1).data.kind = "Custom"
    /\ trace[1] = <<"marshal_template">>

=============================================================================
